---- MODULE Spec2Model ----
(***************************************************************************)
(* Connection-detail fetching, publishing and configuration of a composite *)
(* resource: internal/controller/apiextensions/composite/connection.go.    *)
(*                                                                         *)
(* Five components are modelled, each with its own specification:          *)
(*   SpecFetchChain      ConnectionDetailsFetcherChain                     *)
(*   SpecFetcher         SecretStoreConnectionDetailsFetcher               *)
(*   SpecPublisherChain  ConnectionPublisherChain                          *)
(*   SpecPublisher       SecretStoreConnectionPublisher over a store       *)
(*   SpecConfigure       ConnectionDetailsConfigurator                     *)
(* The interfaces a component calls (chained fetchers and publishers, the  *)
(* store's read, the object update) are modelled by the outcome each call  *)
(* returns, drawn from small sets.                                         *)
(***************************************************************************)
EXTENDS Integers, Sequences, FiniteSets, TLC

\* ------------------------------------------------------------------ bounds
MaxFetchers == 3
MaxPublishers == 3
MaxRules == 2
MaxFilter == 2
MaxCalls == 2

\* ------------------------------------------------------------------ values
\* Keys of connection details, and the (non-nil) byte values they carry.
Keys == {"a", "b"}
Vals == {"v1", "v2"}

\* A nil []byte, as data[k] yields for a key the map lacks.
NilBytes == "<nil bytes>"

\* A nil *string.
NilStr == "<nil string>"

\* Go maps: kv is the content, nil tells a nil map from an empty one.
EmptyKV == [k \in {} |-> NilBytes]
KVs == UNION {[S -> Vals] : S \in SUBSET Keys}
NilMap == [nil |-> TRUE, kv |-> EmptyKV]
MkMap(m) == [nil |-> FALSE, kv |-> m]
Maps == {NilMap} \cup {MkMap(m) : m \in KVs}

\* Errors are the chain of messages from the outermost wrap to the cause;
\* the nil error is the empty chain.
NilErr == <<>>
Errs == {<<"e1">>, <<"e2">>}

\* errors.Wrap returns nil for a nil error.
Wrap(err, msg) == IF err = NilErr THEN NilErr ELSE <<msg>> \o err

errPublish == "errPublish"
errFetchSecret == "errFetchSecret"
errFmtConnDetailKey == "errFmtConnDetailKey"
errCompositionNotCompatible == "errCompositionNotCompatible"
errUpdateComposite == "errUpdateComposite"

\* Sequences over S of length at most n.
SeqsUpTo(S, n) == UNION {[1..k -> S] : k \in 0..n}

VARIABLES
    fc, fcRet,          \* fetcher chain: the chained fetchers, the call's return
    tmpl, secret, fRet, \* secret store fetcher: template, store read, return
    pc, pcArgs, pcRet,  \* publisher chain: chained publishers, arguments, return
    filter, store, pLast, pubs, \* secret store publisher and its store
    cp, server, cLast, cPrev    \* configurator: resource, persisted copy, calls

fcVars == <<fc, fcRet>>
fVars == <<tmpl, secret, fRet>>
pcVars == <<pc, pcArgs, pcRet>>
pVars == <<filter, store, pLast, pubs>>
cVars == <<cp, server, cLast, cPrev>>
vars == <<fc, fcRet, tmpl, secret, fRet, pc, pcArgs, pcRet,
          filter, store, pLast, pubs, cp, server, cLast, cPrev>>

\* ------------------------------------------------------- fetcher chain
\* What one chained ConnectionDetailsFetcher returns when invoked.
FetcherOutcomes == [conn : Maps, err : {NilErr} \cup Errs]

\* Mutant of MergeInto: a key already in `all` keeps its value.
MergeIntoKeepsEarlier(all, conn) ==
    [k \in DOMAIN all \cup DOMAIN conn |->
        IF k \in DOMAIN all THEN all[k] ELSE conn[k]]

\* for k, v := range conn { all[k] = v }
MergeInto(all, conn) ==
    [k \in DOMAIN all \cup DOMAIN conn |->
        IF k \in DOMAIN conn THEN conn[k] ELSE all[k]]

\* Mutant of FetcherChainLoop: the failing fetcher's mapping is merged
\* before its error is returned.
RECURSIVE FetcherChainLoopMergesFailed(_, _, _)
FetcherChainLoopMergesFailed(chain, i, all) ==
    IF i > Len(chain)
    THEN [done |-> TRUE, conn |-> MkMap(all), err |-> NilErr, invoked |-> Len(chain)]
    ELSE IF chain[i].err # NilErr
    THEN [done |-> TRUE, conn |-> MkMap(MergeInto(all, chain[i].conn.kv)),
          err |-> chain[i].err, invoked |-> i]
    ELSE FetcherChainLoopMergesFailed(chain, i + 1, MergeInto(all, chain[i].conn.kv))

\* The loop of ConnectionDetailsFetcherChain.FetchConnectionDetails from
\* the i-th fetcher on, with `all` accumulated so far.
RECURSIVE FetcherChainLoop(_, _, _)
FetcherChainLoop(chain, i, all) ==
    IF i > Len(chain)
    THEN [done |-> TRUE, conn |-> MkMap(all), err |-> NilErr, invoked |-> Len(chain)]
    ELSE IF chain[i].err # NilErr
    THEN [done |-> TRUE, conn |-> MkMap(all), err |-> chain[i].err, invoked |-> i]
    ELSE FetcherChainLoop(chain, i + 1, MergeInto(all, chain[i].conn.kv))

FetcherChainFetchConnectionDetails(chain) == FetcherChainLoop(chain, 1, EmptyKV)

NoFcRet == [done |-> FALSE, conn |-> NilMap, err |-> NilErr, invoked |-> 0]

IdleFetchChain == fc = <<>> /\ fcRet = NoFcRet

InitFetchChain ==
    /\ fc \in SeqsUpTo(FetcherOutcomes, MaxFetchers)
    /\ fcRet = NoFcRet

FetchChain ==
    /\ ~fcRet.done
    /\ fcRet' = FetcherChainFetchConnectionDetails(fc)
    /\ UNCHANGED <<fc, fVars, pcVars, pVars, cVars>>

\* ------------------------------------------------ secret store fetcher
FromConnectionSecretKey == "FromConnectionSecretKey"
FromFieldPath == "FromFieldPath"
FromValue == "FromValue"
Unknown == "Unknown"
DetailTypes == {FromConnectionSecretKey, FromFieldPath, FromValue, Unknown}

\* A connection detail of the template: its type, the source key reference
\* (*string FromConnectionSecretKey) and the rename (*string Name).
ConnectionDetail ==
    [type : DetailTypes,
     fromKey : Keys \cup {NilStr},
     name : Keys \cup {"", NilStr}]

\* The type of a connection detail, as declared.
connectionDetailType(d) == d.type

\* What f.fetcher.FetchConnection returns: the owner's payload (a nil map
\* when there is none; a key may carry a nil value) or an error.
SecretData == {NilMap} \cup
    {MkMap(m) : m \in UNION {[S -> Vals \cup {NilBytes}] : S \in SUBSET Keys}}
SecretOutcomes ==
    [data : SecretData, err : {NilErr}] \cup [data : {NilMap}, err : Errs]

\* data[k]: the zero value (nil) for a key the map lacks, and for a nil map.
Lookup(data, k) == IF k \in DOMAIN data.kv THEN data.kv[k] ELSE NilBytes

\* conn[key] = val
Put(conn, key, val) ==
    [k \in DOMAIN conn \cup {key} |-> IF k = key THEN val ELSE conn[k]]

\* Mutant of OutputKey: the rename is ignored.
OutputKeyIgnoresName(d) == d.fromKey

\* key := *d.FromConnectionSecretKey; if d.Name != nil { key = *d.Name }
OutputKey(d) == IF d.name # NilStr THEN d.name ELSE d.fromKey

NoFRet == [done |-> FALSE, conn |-> NilMap, err |-> NilErr]
FRet(conn, err) == [done |-> TRUE, conn |-> conn, err |-> err]

\* The loop over t.ConnectionDetails from the i-th detail on, and the
\* return that follows it.
RECURSIVE SecretStoreFetchLoop(_, _, _, _)
SecretStoreFetchLoop(t, i, data, conn) ==
    IF i > Len(t)
    THEN IF Cardinality(DOMAIN conn) = 0
         THEN FRet(NilMap, NilErr)
         ELSE FRet(MkMap(conn), NilErr)
    ELSE LET d == t[i]
             tp == connectionDetailType(d)
         IN  IF tp = FromConnectionSecretKey
             THEN IF d.fromKey = NilStr
                  THEN FRet(NilMap, <<errFmtConnDetailKey, tp>>)
                  ELSE IF data.nil \/ Lookup(data, d.fromKey) = NilBytes
                  THEN SecretStoreFetchLoop(t, i + 1, data, conn)
                  ELSE IF OutputKey(d) # ""
                  THEN SecretStoreFetchLoop(t, i + 1, data,
                           Put(conn, OutputKey(d), Lookup(data, d.fromKey)))
                  ELSE SecretStoreFetchLoop(t, i + 1, data, conn)
             ELSE SecretStoreFetchLoop(t, i + 1, data, conn)

SecretStoreFetchConnectionDetails(t, sec) ==
    IF sec.err # NilErr
    THEN FRet(NilMap, Wrap(sec.err, errFetchSecret))
    ELSE SecretStoreFetchLoop(t, 1, sec.data, EmptyKV)

IdleFetcher ==
    tmpl = <<>> /\ secret = [data |-> NilMap, err |-> NilErr] /\ fRet = NoFRet

InitFetcher ==
    /\ tmpl \in SeqsUpTo(ConnectionDetail, MaxRules)
    /\ secret \in SecretOutcomes
    /\ fRet = NoFRet

Fetch ==
    /\ ~fRet.done
    /\ fRet' = SecretStoreFetchConnectionDetails(tmpl, secret)
    /\ UNCHANGED <<tmpl, secret, fcVars, pcVars, pVars, cVars>>

\* ---------------------------------------------------- publisher chain
\* The owner's publish destination: GetPublishConnectionDetailsTo() is nil
\* when set is FALSE.
NoDest == [set |-> FALSE, name |-> "", store |-> ""]
MkDest(n, s) == [set |-> TRUE, name |-> n, store |-> s]

Owners == {[dest |-> NoDest], [dest |-> MkDest("x", "s0")]}

\* What one chained ConnectionPublisher returns when invoked.
PublisherOutcomes == [pb : BOOLEAN, err : {NilErr} \cup Errs]

NoPcRet == [done |-> FALSE, published |-> FALSE, err |-> NilErr, calls |-> <<>>]

\* Mutant of PublisherChainLoop: published is the last publisher's report.
RECURSIVE PublisherChainLoopLastReport(_, _, _, _, _, _)
PublisherChainLoopLastReport(chain, i, o, c, published, calls) ==
    IF i > Len(chain)
    THEN [done |-> TRUE, published |-> published, err |-> NilErr, calls |-> calls]
    ELSE LET err == chain[i].err
             called == Append(calls, [o |-> o, c |-> c])
             pub == chain[i].pb
         IN  IF err # NilErr
             THEN [done |-> TRUE, published |-> pub, err |-> err, calls |-> called]
             ELSE PublisherChainLoopLastReport(chain, i + 1, o, c, pub, called)

\* The loop of ConnectionPublisherChain.PublishConnection from the i-th
\* publisher on; calls lists the arguments each invoked publisher received.
RECURSIVE PublisherChainLoop(_, _, _, _, _, _)
PublisherChainLoop(chain, i, o, c, published, calls) ==
    IF i > Len(chain)
    THEN [done |-> TRUE, published |-> published, err |-> NilErr, calls |-> calls]
    ELSE LET pb == chain[i].pb
             err == chain[i].err
             called == Append(calls, [o |-> o, c |-> c])
             pub == IF pb THEN TRUE ELSE published
         IN  IF err # NilErr
             THEN [done |-> TRUE, published |-> pub, err |-> err, calls |-> called]
             ELSE PublisherChainLoop(chain, i + 1, o, c, pub, called)

PublisherChainPublishConnection(chain, o, c) ==
    PublisherChainLoop(chain, 1, o, c, FALSE, <<>>)

IdlePublisherChain ==
    pc = <<>> /\ pcArgs = [o |-> [dest |-> NoDest], c |-> NilMap] /\ pcRet = NoPcRet

InitPublisherChain ==
    /\ pc \in SeqsUpTo(PublisherOutcomes, MaxPublishers)
    /\ pcArgs \in [o : Owners, c : Maps]
    /\ pcRet = NoPcRet

PublishChain ==
    /\ ~pcRet.done
    /\ pcRet' = PublisherChainPublishConnection(pc, pcArgs.o, pcArgs.c)
    /\ UNCHANGED <<pc, pcArgs, fcVars, fVars, pVars, cVars>>

\* ---------------------------------------- secret store publisher, store
\* Mutant of FilterSet: only the filter's first key is kept.
FilterSetFirstKeyOnly(f) == IF Len(f) = 0 THEN {} ELSE {f[1]}

\* m: the set of the filter's keys (m[key] = true for each key of p.filter).
FilterSet(f) == {f[i] : i \in 1..Len(f)}

\* Mutant of Allowed: an empty filter allows nothing.
AllowedOnlyIfListed(m, key) == key \in m

\* len(m) == 0 || m[key]
Allowed(m, key) == Cardinality(m) = 0 \/ key \in m

\* data: the details that pass the filter.
FilteredData(f, c) ==
    LET m == FilterSet(f)
    IN  [k \in {key \in DOMAIN c.kv : Allowed(m, key)} |-> c.kv[k]]

\* Mutant of WantsPublish: the destination is not looked at.
WantsPublishAlways(o) == TRUE

\* o.GetPublishConnectionDetailsTo() != nil
WantsPublish(o) == o.dest.set

\* The store's write of a payload to the owner's destination: the payload
\* is merged into what the destination holds.
StoreWrite(st, data) == MergeInto(st, data)

\* SecretStoreConnectionPublisher.PublishConnection with filter f on owner o
\* and details c, against a store holding st whose write returns storeErr:
\* the return values, whether and with what payload the store's publish
\* was called, and what the store holds afterwards.
SecretStorePublishConnection(f, o, c, st, storeErr) ==
    IF ~WantsPublish(o)
    THEN [published |-> FALSE, err |-> NilErr, wrote |-> FALSE,
          data |-> EmptyKV, store |-> st]
    ELSE LET data == FilteredData(f, c)
         IN  IF storeErr # NilErr
             THEN [published |-> FALSE, err |-> Wrap(storeErr, errPublish),
                   wrote |-> TRUE, data |-> data, store |-> st]
             ELSE [published |-> TRUE, err |-> NilErr,
                   wrote |-> TRUE, data |-> data, store |-> StoreWrite(st, data)]

NoPLast ==
    [n |-> 0, o |-> [dest |-> NoDest], c |-> NilMap, storeErr |-> NilErr,
     before |-> EmptyKV, published |-> FALSE, err |-> NilErr,
     wrote |-> FALSE, data |-> EmptyKV]

\* The keys a filter may list: those of the details and one they never have.
FilterKeys == Keys \cup {"z"}

IdlePublisher ==
    filter = <<>> /\ store = EmptyKV /\ pLast = NoPLast /\ pubs = <<>>

InitPublisher ==
    /\ filter \in SeqsUpTo(FilterKeys, MaxFilter)
    /\ store = EmptyKV
    /\ pLast = NoPLast
    /\ pubs = <<>>

\* One PublishConnection call. pLast records the call; pubs lists the
\* details of the calls that returned published = true.
Publish ==
    /\ pLast.n < MaxCalls
    /\ \E o \in Owners, c \in Maps, storeErr \in {NilErr, <<"e1">>} :
         LET r == SecretStorePublishConnection(filter, o, c, store, storeErr)
         IN  /\ store' = r.store
             /\ pLast' = [n |-> pLast.n + 1, o |-> o, c |-> c,
                          storeErr |-> IF r.wrote THEN storeErr ELSE NilErr,
                          before |-> store, published |-> r.published,
                          err |-> r.err, wrote |-> r.wrote, data |-> r.data]
             /\ pubs' = IF r.published THEN Append(pubs, c.kv) ELSE pubs
    /\ UNCHANGED <<filter, fcVars, fVars, pcVars, cVars>>

\* ------------------------------------------------------- configurator
APIVersions == {"g/v1", "g/v2"}
Kinds == {"K1", "K2"}
TypeRefs == [apiVersion : APIVersions, kind : Kinds]

\* A composition: Spec.CompositeTypeRef and the optional
\* Spec.PublishConnectionDetailsWithStoreConfig (*string).
Compositions == [typeRef : TypeRefs, storeConfig : {NilStr, "s1", "s2"}]

\* A composite resource: its type, its UID and its publish destination.
Composites ==
    [gvk : TypeRefs, uid : {"u1"}, dest : {NoDest, MkDest("x", "s0")}]

\* Mutant of NotCompatible: only the kind is compared.
NotCompatibleKindOnly(r, comp) == comp.typeRef.kind # r.gvk.kind

\* comp.Spec.CompositeTypeRef.APIVersion != apiVersion ||
\* comp.Spec.CompositeTypeRef.Kind != kind
NotCompatible(r, comp) ==
    comp.typeRef.apiVersion # r.gvk.apiVersion \/ comp.typeRef.kind # r.gvk.kind

\* Mutant of NothingToConfigure: an existing destination is not looked at.
NothingToConfigureIgnoresDest(r, comp) == comp.storeConfig = NilStr

\* cp.GetPublishConnectionDetailsTo() != nil ||
\* comp.Spec.PublishConnectionDetailsWithStoreConfig == nil
NothingToConfigure(r, comp) == r.dest.set \/ comp.storeConfig = NilStr

\* cp.SetPublishConnectionDetailsTo(...)
SetPublishConnectionDetailsTo(r, comp) ==
    [r EXCEPT !.dest = MkDest(r.uid, comp.storeConfig)]

\* Configure on the resource object r, the API server holding srv, the
\* object update returning updateErr: the error returned, the object and
\* the server's copy afterwards, and whether an update was issued.
Configure(r, comp, srv, updateErr) ==
    IF NotCompatible(r, comp)
    THEN [err |-> <<errCompositionNotCompatible>>, cp |-> r, server |-> srv,
          updated |-> FALSE, assigned |-> FALSE]
    ELSE IF NothingToConfigure(r, comp)
    THEN [err |-> NilErr, cp |-> r, server |-> srv,
          updated |-> FALSE, assigned |-> FALSE]
    ELSE LET set == SetPublishConnectionDetailsTo(r, comp)
         IN  [err |-> Wrap(updateErr, errUpdateComposite), cp |-> set,
              server |-> IF updateErr = NilErr THEN set ELSE srv,
              updated |-> TRUE, assigned |-> TRUE]

NoComposition == [typeRef |-> [apiVersion |-> "", kind |-> ""], storeConfig |-> NilStr]

NoCPrev == [called |-> FALSE, comp |-> NoComposition]

NoCLast(r) ==
    [called |-> FALSE, comp |-> NoComposition, err |-> NilErr, updated |-> FALSE,
     assigned |-> FALSE, before |-> r, serverBefore |-> r]

InitConfigure ==
    /\ cp \in Composites
    /\ server = cp
    /\ cLast = NoCLast(cp)
    /\ cPrev = NoCPrev

IdleConfigure ==
    LET r == [gvk |-> [apiVersion |-> "g/v1", kind |-> "K1"], uid |-> "u1",
              dest |-> NoDest]
    IN  cp = r /\ server = r /\ cLast = NoCLast(r) /\ cPrev = NoCPrev

\* One Configure call on the resource object. cLast records the call and
\* whether the object's destination is one a Configure call assigned;
\* cPrev records the composition of the call before it.
ConfigureCall ==
    /\ \E comp \in Compositions, updateErr \in {NilErr, <<"conflict">>} :
         LET r == Configure(cp, comp, server, updateErr)
         IN  /\ cp' = r.cp
             /\ server' = r.server
             /\ cLast' = [called |-> TRUE, comp |-> comp, err |-> r.err,
                          updated |-> r.updated,
                          assigned |-> cLast.assigned \/ r.assigned,
                          before |-> cp, serverBefore |-> server]
             /\ cPrev' = [called |-> cLast.called, comp |-> cLast.comp]
    /\ UNCHANGED <<fcVars, fVars, pcVars, pVars>>

\* ----------------------------------------------------- specifications
\* Each specification runs one component; the others stay idle.
StartFetchChain ==
    InitFetchChain /\ IdleFetcher /\ IdlePublisherChain /\ IdlePublisher /\ IdleConfigure

StartFetcher ==
    IdleFetchChain /\ InitFetcher /\ IdlePublisherChain /\ IdlePublisher /\ IdleConfigure

StartPublisherChain ==
    IdleFetchChain /\ IdleFetcher /\ InitPublisherChain /\ IdlePublisher /\ IdleConfigure

StartPublisher ==
    IdleFetchChain /\ IdleFetcher /\ IdlePublisherChain /\ InitPublisher /\ IdleConfigure

StartConfigure ==
    IdleFetchChain /\ IdleFetcher /\ IdlePublisherChain /\ IdlePublisher /\ InitConfigure

SpecFetchChain == StartFetchChain /\ [][FetchChain]_vars

SpecFetcher == StartFetcher /\ [][Fetch]_vars

SpecPublisherChain == StartPublisherChain /\ [][PublishChain]_vars

SpecPublisher == StartPublisher /\ [][Publish]_vars

SpecConfigure == StartConfigure /\ [][ConfigureCall]_vars

\* ------------------------------------------------------------- claims
\* The indices of the maps of the sequence ms that have key k, the highest
\* and the lowest of a set of indices, and: res is the key-wise union of
\* the maps of ms, each key with the value of the last map that has it.
Having(ms, k) == {i \in 1..Len(ms) : k \in DOMAIN ms[i]}
Highest(S) == CHOOSE i \in S : \A j \in S : j <= i
Lowest(S) == CHOOSE i \in S : \A j \in S : i <= j
IsLastWinsUnion(res, ms) ==
    /\ DOMAIN res = UNION {DOMAIN ms[i] : i \in 1..Len(ms)}
    /\ \A k \in DOMAIN res : res[k] = ms[Highest(Having(ms, k))][k]

\* The mappings M1..Mn the chained fetchers return, and the fetchers that
\* return an error.
FetchedMaps == [i \in 1..Len(fc) |-> fc[i].conn.kv]
FailingFetchers == {i \in 1..Len(fc) : fc[i].err # NilErr}

\* C1: when no chained fetcher returns an error, the chain returns a nil
\* error and a (non-nil) mapping whose keys are the union of the keys of
\* M1..Mn, each with the value of the highest-indexed Mi that has it; a
\* fetcher returning nil adds nothing and an empty chain gives an empty
\* mapping.
C1_ChainIsLastWinsUnion ==
    (fcRet.done /\ FailingFetchers = {}) =>
        /\ fcRet.err = NilErr
        /\ ~fcRet.conn.nil
        /\ IsLastWinsUnion(fcRet.conn.kv, FetchedMaps)
        /\ fcRet.invoked = Len(fc)

C1_Witness ==
    /\ fcRet.done /\ FailingFetchers = {} /\ Len(fc) = 3
    /\ fc[1].conn.kv = ("a" :> "v1") @@ ("b" :> "v1")
    /\ fc[2].conn.nil
    /\ fc[3].conn.kv = ("b" :> "v2")
    /\ fcRet.conn.kv = ("a" :> "v1") @@ ("b" :> "v2")

\* C2 as stated: when Fi is the first fetcher to return an error, the chain
\* returns that error and exactly the merge of M1..M(i-1) merged with the
\* mapping Fi returned alongside its error, and invokes no fetcher after Fi.
C2_ErrorKeepsFailingFetchersMap ==
    (fcRet.done /\ FailingFetchers # {}) =>
        LET i == Lowest(FailingFetchers)
        IN  /\ fcRet.err = fc[i].err
            /\ IsLastWinsUnion(fcRet.conn.kv, SubSeq(FetchedMaps, 1, i))
            /\ fcRet.invoked = i

\* C2 amended: when Fi is the first fetcher to return an error, the chain
\* returns that error and exactly the merge of M1..M(i-1); the mapping Fi
\* returned alongside its error is discarded; no fetcher after Fi is invoked.
C2_ErrorReturnsMergeOfEarlier ==
    (fcRet.done /\ FailingFetchers # {}) =>
        LET i == Lowest(FailingFetchers)
        IN  /\ fcRet.err = fc[i].err
            /\ ~fcRet.conn.nil
            /\ IsLastWinsUnion(fcRet.conn.kv, SubSeq(FetchedMaps, 1, i - 1))
            /\ fcRet.invoked = i

C2_Witness ==
    /\ fcRet.done /\ Len(fc) = 3
    /\ fc[1].err = NilErr /\ fc[1].conn.kv = ("a" :> "v1")
    /\ fc[2].err = <<"e1">> /\ fc[2].conn.kv = ("b" :> "v2")
    /\ fc[3].err = <<"e2">>
    /\ fcRet.err = <<"e1">>
    /\ fcRet.conn.kv = ("a" :> "v1")
    /\ fcRet.invoked = 2

\* C3: with an empty filter and a store whose write merges, after any
\* sequence of successful publishes the store holds every key ever
\* published, each with the value of the most recent publish that had it.
C3_PublishIsAdditive ==
    Len(filter) = 0 => IsLastWinsUnion(store, pubs)

C3_Witness ==
    /\ Len(filter) = 0
    /\ Len(pubs) = 2
    /\ pubs[1] = ("a" :> "v1") @@ ("b" :> "v1")
    /\ pubs[2] = ("b" :> "v2")
    /\ store = ("a" :> "v1") @@ ("b" :> "v2")

\* The details c restricted to the keys the filter f lists.
RestrictedTo(c, f) ==
    [k \in {key \in DOMAIN c : \E i \in 1..Len(f) : f[i] = key} |-> c[k]]

\* C4: publishing to an owner with a destination hands the store exactly
\* the details restricted to the filter's keys when the filter is not empty
\* and exactly the details when it is; dropping a key is not an error (the
\* call fails only when the store's write does).
C4_PayloadIsFilteredDetails ==
    (pLast.n > 0 /\ pLast.o.dest.set) =>
        /\ pLast.wrote
        /\ pLast.data = IF Len(filter) = 0 THEN pLast.c.kv
                        ELSE RestrictedTo(pLast.c.kv, filter)
        /\ pLast.storeErr = NilErr => (pLast.err = NilErr /\ pLast.published)
        /\ pLast.storeErr # NilErr => pLast.err = <<errPublish>> \o pLast.storeErr

C4_Witness ==
    /\ pLast.n > 0 /\ pLast.o.dest.set
    /\ filter = <<"a">>
    /\ pLast.c.kv = ("a" :> "v1") @@ ("b" :> "v2")
    /\ pLast.data = ("a" :> "v1")
    /\ pLast.err = NilErr /\ pLast.published
    /\ store = ("a" :> "v1")

\* The connection details of the template that qualify for output key k:
\* from-secret-key details with a source key reference, resolving to k,
\* whose source key has a non-nil value in the payload.
Qualifying(k) ==
    {i \in 1..Len(tmpl) :
        /\ tmpl[i].type = FromConnectionSecretKey
        /\ tmpl[i].fromKey # NilStr
        /\ (IF tmpl[i].name # NilStr THEN tmpl[i].name ELSE tmpl[i].fromKey) = k
        /\ ~secret.data.nil
        /\ tmpl[i].fromKey \in DOMAIN secret.data.kv
        /\ secret.data.kv[tmpl[i].fromKey] # NilBytes}

\* C5: after a store read without error, the fetcher emits a key only if it
\* is non-empty and some from-secret-key detail qualifies for it, with the
\* payload's value of that detail's source key; details of other types add
\* nothing; and when no key qualifies the result is nil, never an empty
\* mapping.
C5_FetcherEmitsOnlyDeclaredKeys ==
    (fRet.done /\ secret.err = NilErr) =>
        /\ \A k \in DOMAIN fRet.conn.kv :
              /\ k # ""
              /\ \E i \in Qualifying(k) :
                    fRet.conn.kv[k] = secret.data.kv[tmpl[i].fromKey]
        /\ fRet.conn.nil <=> DOMAIN fRet.conn.kv = {}
        /\ (\A k \in Keys : Qualifying(k) = {}) => fRet.conn.nil

C5_Witness ==
    /\ fRet.done /\ secret.err = NilErr /\ Len(tmpl) = 2
    /\ tmpl[1] = [type |-> FromFieldPath, fromKey |-> "b", name |-> NilStr]
    /\ tmpl[2] = [type |-> FromConnectionSecretKey, fromKey |-> "a", name |-> "b"]
    /\ secret.data.kv = ("a" :> "v1") @@ ("b" :> "v2")
    /\ fRet.err = NilErr
    /\ fRet.conn = MkMap("b" :> "v1")

\* C6: publishing to an owner with no destination returns published = false
\* and a nil error, calls no store write and leaves the store as it was.
C6_NoDestinationIsNoOp ==
    (pLast.n > 0 /\ ~pLast.o.dest.set) =>
        /\ ~pLast.published
        /\ pLast.err = NilErr
        /\ ~pLast.wrote
        /\ store = pLast.before

C6_Witness ==
    /\ pLast.n = 2 /\ ~pLast.o.dest.set
    /\ pLast.c.kv = ("a" :> "v2") @@ ("b" :> "v2")
    /\ Len(filter) = 0
    /\ store = ("a" :> "v1")
    /\ ~pLast.published /\ pLast.err = NilErr

\* The chained publishers that return an error.
FailingPublishers == {i \in 1..Len(pc) : pc[i].err # NilErr}

\* The number of publishers the chain is to invoke: up to and including the
\* first that returns an error.
ToInvoke ==
    IF FailingPublishers = {} THEN Len(pc) ELSE Lowest(FailingPublishers)

\* C7: the publisher chain invokes its publishers in order, each with the
\* same owner and details, up to and including the first that returns an
\* error; published is true exactly when an invoked publisher reported
\* true; the error is the first one returned, or nil.
C7_PublisherChainAggregates ==
    pcRet.done =>
        /\ Len(pcRet.calls) = ToInvoke
        /\ \A j \in 1..Len(pcRet.calls) : pcRet.calls[j] = pcArgs
        /\ pcRet.published <=> \E j \in 1..ToInvoke : pc[j].pb
        /\ pcRet.err = IF FailingPublishers = {} THEN NilErr ELSE pc[ToInvoke].err

C7_Witness ==
    /\ pcRet.done /\ Len(pc) = 3
    /\ pc[1] = [pb |-> TRUE, err |-> NilErr]
    /\ pc[2] = [pb |-> FALSE, err |-> <<"e1">>]
    /\ pc[3] = [pb |-> TRUE, err |-> <<"e2">>]
    /\ pcArgs.c.kv = ("a" :> "v1")
    /\ pcRet.published
    /\ pcRet.err = <<"e1">>
    /\ Len(pcRet.calls) = 2

\* C8: a Configure call on a resource that already has a destination leaves
\* the destination (and the whole object) as it was and issues no update;
\* and the second of two successive calls with the same composition leaves
\* the object and the server's copy as the first left them.
C8_ConfigureInitializesOnce ==
    /\ (cLast.called /\ cLast.before.dest.set) =>
          /\ cp = cLast.before
          /\ ~cLast.updated
          /\ server = cLast.serverBefore
    /\ (cLast.called /\ cPrev.called /\ cPrev.comp = cLast.comp) =>
          /\ cp = cLast.before
          /\ ~cLast.updated
          /\ server = cLast.serverBefore

C8_Witness ==
    /\ cLast.called /\ cPrev.called /\ cPrev.comp = cLast.comp
    /\ cLast.comp.storeConfig = "s1"
    /\ ~NotCompatible(cp, cLast.comp)
    /\ cLast.assigned
    /\ cp.dest = MkDest("u1", "s1")
    /\ server = cp
    /\ cLast.before = cp

\* C9: Configure with a composition whose type reference differs from the
\* resource's API version or kind returns the composition-mismatch error,
\* leaves the resource as it was and issues no update.
C9_MismatchMutatesNothing ==
    (cLast.called /\ (cLast.comp.typeRef.apiVersion # cLast.before.gvk.apiVersion
                      \/ cLast.comp.typeRef.kind # cLast.before.gvk.kind)) =>
        /\ cLast.err = <<errCompositionNotCompatible>>
        /\ cp = cLast.before
        /\ ~cLast.updated
        /\ server = cLast.serverBefore

C9_Witness ==
    /\ cLast.called
    /\ cLast.comp.typeRef.apiVersion = cp.gvk.apiVersion
    /\ cLast.comp.typeRef.kind # cp.gvk.kind
    /\ cLast.comp.storeConfig = "s1"
    /\ ~cp.dest.set
    /\ cLast.err = <<errCompositionNotCompatible>>

\* C10: whenever a Configure call returns success and the resource carries
\* a destination that Configure assigned, a successful object update has
\* persisted that destination.
C10_AssignedDestinationIsPersisted ==
    (cLast.called /\ cLast.err = NilErr /\ cLast.assigned /\ cp.dest.set) =>
        server.dest = cp.dest

====
